---- MODULE Spec2Model ----
(***************************************************************************)
(* The FFmpeg adapters of QtAV: AudioDecoderFFmpeg, VideoDecoderFFmpegBase *)
(* and AudioEncoderFFmpeg.  One driver instance is modelled per behaviour  *)
(* (its kind is fixed in Init); the external codec is the send/receive     *)
(* collaborator described in the specification, section 6.                 *)
(* Spec is the driver under every sequence of calls, SpecLive the same     *)
(* under a caller that keeps calling, SpecFrame the conversion frame()     *)
(* performs on every kind of decoded video frame.                          *)
(***************************************************************************)
EXTENDS Integers, Sequences, FiniteSets, TLC

\* ---- bounds of the model ----
MaxFrames == 3
MaxPerPacket == 2
MaxDim == 2
MaxViews == 2
MaxLeak == 2
MaxSize == 1

\* ---- return codes of the external library ----
AVERROR_EAGAIN == -11
AVERROR_EOF == -541478725
AVERROR_INVALIDDATA == -1094995529

AV_SAMPLE_FMT_NONE == -1
AV_SAMPLE_FMT_S16 == 1

AudioDecoderFFmpeg == "AudioDecoderFFmpeg"
VideoDecoderFFmpegBase == "VideoDecoderFFmpegBase"
AudioEncoderFFmpeg == "AudioEncoderFFmpeg"
Drivers == {AudioDecoderFFmpeg, VideoDecoderFFmpegBase, AudioEncoderFFmpeg}

Bufs == 1..MaxFrames

Min(a, b) == IF a < b THEN a ELSE b

VARIABLES
    driver,          \* which adapter this instance is
    available,       \* isAvailable(): the codec context exists
    useAudioFrame,   \* build flag USE_AUDIO_FRAME
    ctxDims,         \* codec_ctx->width, codec_ctx->height
    alive,           \* the driver's private object has not been destroyed
    codec,           \* state of the external codec behind codec_ctx / avctx
    frame,           \* d.frame, the reusable scratch AVFrame
    refs,            \* reference count of every decoded buffer
    views,           \* internal frames held by the caller, per buffer
    out,             \* the value returned by the last frame() call
    decoded,         \* d.decoded is non-empty
    undecoded_size,  \* d.undecoded_size
    dsize,           \* d.width, d.height
    packet,          \* d.packet of the encoder (0: empty)
    tframes,         \* transient AVFrames allocated by encode, not yet freed
    enc,             \* the encoder's private fields set by the caller and by open()
    avctx,           \* the fields of the codec context (codec_ctx / avctx)
    call             \* what the last decode()/encode() call did and returned

vars == <<driver, available, useAudioFrame, ctxDims, alive, codec, frame, refs,
          views, out, decoded, undecoded_size, dsize, packet, tframes, enc,
          avctx, call>>

\* ---- the external codec (send/receive protocol) ----
Codec0 == [ready |-> 0, held |-> 0, draining |-> FALSE, made |-> 0]

\* results the submit call can report in codec state c
SendOutcomes(c) ==
    IF c.draining THEN {AVERROR_EOF}
    ELSE {0, AVERROR_INVALIDDATA}
         \cup (IF c.ready > 0 THEN {AVERROR_EAGAIN} ELSE {})

\* codec state after an accepted submission: a flush signal starts draining
\* and releases every held result; a data unit produces `new` results and
\* leaves `rdy` results ready for retrieval
AfterSend(c, arg, new, rdy) ==
    IF arg = "flush"
    THEN [c EXCEPT !.draining = TRUE, !.ready = c.ready + c.held, !.held = 0]
    ELSE [c EXCEPT !.made = c.made + new, !.ready = rdy,
                   !.held = c.ready + c.held + new - rdy]

NewRange(c, arg) ==
    IF arg = "flush" THEN {0} ELSE 0..Min(MaxPerPacket, MaxFrames - c.made)

RdyRange(c, arg, new) ==
    IF arg = "flush" THEN {0} ELSE c.ready..(c.ready + c.held + new)

\* results the retrieve call can report in codec state c: "no result yet" or,
\* only after an end-of-stream signal, "permanently drained"
RecvOutcomes(c) ==
    IF c.ready > 0 THEN {0, AVERROR_INVALIDDATA}
    ELSE IF c.draining THEN {AVERROR_EOF, AVERROR_EAGAIN, AVERROR_INVALIDDATA}
    ELSE {AVERROR_EAGAIN, AVERROR_INVALIDDATA}

AfterRecv(c, ret) == IF ret = 0 THEN [c EXCEPT !.ready = c.ready - 1] ELSE c

\* number of results already retrieved; the next one is Taken(c) + 1
Taken(c) == c.made - c.ready - c.held

\* ---- the scratch frame and its buffers ----
\* buf: the decoded buffer the frame references (0: none); format: the sample
\* format of an audio frame (left unset in video frames)
EmptyFrame == [buf |-> 0, width |-> 0, height |-> 0, format |-> AV_SAMPLE_FMT_NONE,
               pix_fmt |-> "AV_PIX_FMT_NONE",
               colorspace |-> "AVCOL_SPC_UNSPECIFIED",
               color_range |-> "AVCOL_RANGE_UNSPECIFIED",
               sample_aspect_ratio |-> <<0, 1>>]

\* av_frame_unref on scratch frame f: drops its reference
Unref(r, f) == IF f.buf # 0 THEN [r EXCEPT ![f.buf] = @ - 1] ELSE r

\* the empty AudioFrame() / VideoFrame(): no format, no metadata
NoFrame == [valid |-> FALSE, buf |-> 0, width |-> 0, height |-> 0,
            format |-> "AV_PIX_FMT_NONE", displayAspectRatio |-> <<0, 1>>,
            colorSpace |-> "ColorSpace_Unknown",
            colorRange |-> "ColorRange_Unknown", avbuf |-> FALSE]

\* no encoder: what the call record holds unless the call is an open()
NoEncoder == [supported_samplerates |-> <<>>, sample_fmts |-> <<>>,
              channel_layouts |-> <<>>, frame_size |-> 0, bits_per_sample |-> 0]

\* codec: the encoder an open() call found
NoCall == [op |-> "none", eos |-> FALSE, trace |-> <<>>, ret |-> FALSE,
           log |-> "", got |-> 0, alloc |-> FALSE, freed |-> FALSE,
           codec |-> NoEncoder]

Ext(fn, arg, ret) == [fn |-> fn, arg |-> arg, ret |-> ret]

\* ---- AudioFormat and the values the external library uses for it ----
AVERROR_EINVAL == -22

AV_SAMPLE_FMT_FLT == 3
AV_CH_LAYOUT_MONO == 4
AV_CH_LAYOUT_STEREO == 3

SampleFormat_Unknown == "SampleFormat_Unknown"
SampleFormat_Signed16 == "SampleFormat_Signed16"
SampleFormat_Float == "SampleFormat_Float"
ChannelLayout_Unsupported == "ChannelLayout_Unsupported"
ChannelLayout_Mono == "ChannelLayout_Mono"
ChannelLayout_Stereo == "ChannelLayout_Stereo"

\* AudioFormat::sampleFormatFFmpeg and AudioFormat::setSampleFormatFFmpeg
sampleFormatFFmpeg(fmt) ==
    IF fmt = SampleFormat_Signed16 THEN AV_SAMPLE_FMT_S16
    ELSE IF fmt = SampleFormat_Float THEN AV_SAMPLE_FMT_FLT
    ELSE AV_SAMPLE_FMT_NONE

sampleFormatFromFFmpeg(v) ==
    IF v = AV_SAMPLE_FMT_S16 THEN SampleFormat_Signed16
    ELSE IF v = AV_SAMPLE_FMT_FLT THEN SampleFormat_Float
    ELSE SampleFormat_Unknown

\* AudioFormat::channelLayoutFFmpeg and AudioFormat::setChannelLayoutFFmpeg
channelLayoutFFmpeg(l) ==
    IF l = ChannelLayout_Mono THEN AV_CH_LAYOUT_MONO
    ELSE IF l = ChannelLayout_Stereo THEN AV_CH_LAYOUT_STEREO
    ELSE 0

channelLayoutFromFFmpeg(v) ==
    IF v = AV_CH_LAYOUT_MONO THEN ChannelLayout_Mono
    ELSE IF v = AV_CH_LAYOUT_STEREO THEN ChannelLayout_Stereo
    ELSE ChannelLayout_Unsupported

\* AudioFormat::channels and AudioFormat::bytesPerSample
channels(l) ==
    IF l = ChannelLayout_Mono THEN 1
    ELSE IF l = ChannelLayout_Stereo THEN 2
    ELSE 0

bytesPerSample(fmt) ==
    IF fmt = SampleFormat_Signed16 THEN 2
    ELSE IF fmt = SampleFormat_Float THEN 4
    ELSE 0

\* an AudioFormat with nothing specified
NoFormat == [sampleRate |-> 0, sampleFormat |-> SampleFormat_Unknown,
             channelLayout |-> ChannelLayout_Unsupported]

\* ---- the codec context ----
AVCOL_SPC_UNSPECIFIED == "AVCOL_SPC_UNSPECIFIED"
AVCOL_RANGE_UNSPECIFIED == "AVCOL_RANGE_UNSPECIFIED"
AV_PIX_FMT_NONE == "AV_PIX_FMT_NONE"

\* the context avcodec_alloc_context3 returns
Ctx0 == [sample_fmt |-> AV_SAMPLE_FMT_NONE, channel_layout |-> 0, channels |-> 0,
         sample_rate |-> 0, bits_per_raw_sample |-> 0, time_base |-> <<0, 1>>,
         bit_rate |-> 0, frame_size |-> 0,
         pix_fmt |-> AV_PIX_FMT_NONE, colorspace |-> AVCOL_SPC_UNSPECIFIED,
         color_range |-> AVCOL_RANGE_UNSPECIFIED,
         sample_aspect_ratio |-> <<0, 1>>]

\* the private fields of a constructed encoder: codec_name is TRUE when a
\* codec name is set; is_open is TRUE while the codec context is open, from
\* an open() that returned true to the next close() or failing open()
Enc0 == [codec_name |-> FALSE, format |-> NoFormat, format_used |-> NoFormat,
         bit_rate |-> 0, frame_size |-> 0, buffer |-> 0, is_open |-> FALSE]

\* what the caller sets before open(): a format with nothing or with
\* everything specified, and a bit rate
CallerFormats ==
    {NoFormat,
     [sampleRate |-> 48000, sampleFormat |-> SampleFormat_Float,
      channelLayout |-> ChannelLayout_Mono]}

CallerBitRate == 128000

AV_PIX_FMT_YUV420P == "AV_PIX_FMT_YUV420P"

Init ==
    /\ driver \in Drivers
    /\ available \in (IF driver = AudioEncoderFFmpeg THEN {TRUE} ELSE BOOLEAN)
    /\ useAudioFrame \in (IF driver = AudioDecoderFFmpeg THEN BOOLEAN ELSE {TRUE})
    /\ ctxDims \in (IF driver = VideoDecoderFFmpegBase /\ available
                    THEN {0, MaxDim} \X {0, MaxDim} ELSE {<<0, 0>>})
    /\ alive = TRUE
    /\ codec = Codec0
    /\ frame = EmptyFrame
    /\ refs = [b \in Bufs |-> 0]
    /\ views = [b \in Bufs |-> 0]
    /\ out = NoFrame
    /\ decoded = FALSE
    /\ undecoded_size = 0
    /\ dsize = <<0, 0>>
    /\ packet = 0
    /\ tframes = 0
    /\ enc \in (IF driver = AudioEncoderFFmpeg
                THEN {[Enc0 EXCEPT !.codec_name = n, !.format = f,
                                   !.format_used = f, !.bit_rate = CallerBitRate] :
                         n \in BOOLEAN, f \in CallerFormats}
                ELSE {Enc0})
    /\ avctx = (IF driver = VideoDecoderFFmpegBase /\ available
                THEN [Ctx0 EXCEPT !.pix_fmt = AV_PIX_FMT_YUV420P]
                ELSE Ctx0)
    /\ call = NoCall

\* ---- VideoDecoderFFmpegBase::decode ----
VideoSubmitArg(eof) == IF eof THEN "flush" ELSE "data"

\* a driver that goes on to the retrieval whatever the submission reported
VideoSubmitRejected_Never(ret) == FALSE

VideoSubmitRejected(ret) == ret < 0

VideoNoFrame(ret) == ret = AVERROR_EAGAIN \/ ret = AVERROR_EOF

VideoNoFrameResult(eof) == ~eof

VideoDecode(eof, sendRet, new, rdy, recvRet, w, h) ==
    /\ driver = VideoDecoderFFmpegBase
    /\ alive
    /\ IF ~available
       THEN /\ call' = [NoCall EXCEPT !.op = "decode", !.eos = eof]
            /\ UNCHANGED <<codec, frame, refs, dsize>>
       ELSE
        LET arg == VideoSubmitArg(eof)
            snd == Ext("avcodec_send_packet", arg, sendRet)
        IN
        /\ sendRet \in SendOutcomes(codec)
        /\ IF VideoSubmitRejected(sendRet)
           THEN /\ call' = [NoCall EXCEPT !.op = "decode", !.eos = eof,
                                          !.trace = <<snd>>, !.log = "send"]
                /\ UNCHANGED <<codec, frame, refs, dsize>>
           ELSE
            LET c1 == IF sendRet = 0 THEN AfterSend(codec, arg, new, rdy) ELSE codec
                c2 == AfterRecv(c1, recvRet)
                rcv == Ext("avcodec_receive_frame", "-", recvRet)
                r1 == Unref(refs, frame)
            IN
            /\ new \in NewRange(codec, arg)
            /\ rdy \in RdyRange(codec, arg, new)
            /\ recvRet \in RecvOutcomes(c1)
            /\ codec' = c2
            /\ IF VideoNoFrame(recvRet)
               THEN /\ frame' = EmptyFrame
                    /\ refs' = r1
                    /\ call' = [NoCall EXCEPT !.op = "decode", !.eos = eof,
                                   !.trace = <<snd, rcv>>,
                                   !.ret = VideoNoFrameResult(eof)]
                    /\ UNCHANGED dsize
               ELSE IF recvRet < 0
               THEN /\ frame' = EmptyFrame
                    /\ refs' = r1
                    /\ call' = [NoCall EXCEPT !.op = "decode", !.eos = eof,
                                   !.trace = <<snd, rcv>>, !.log = "receive"]
                    /\ UNCHANGED dsize
               ELSE /\ frame' = [EmptyFrame EXCEPT !.buf = Taken(c2), !.width = w,
                                                    !.height = h,
                                                    !.pix_fmt = avctx.pix_fmt]
                    /\ refs' = [r1 EXCEPT ![Taken(c2)] = 1]
                    /\ IF ctxDims[1] = 0 \/ ctxDims[2] = 0
                       THEN /\ call' = [NoCall EXCEPT !.op = "decode", !.eos = eof,
                                           !.trace = <<snd, rcv>>, !.got = Taken(c2)]
                            /\ UNCHANGED dsize
                       ELSE /\ dsize' = <<w, h>>
                            /\ call' = [NoCall EXCEPT !.op = "decode", !.eos = eof,
                                           !.trace = <<snd, rcv>>, !.got = Taken(c2),
                                           !.ret = TRUE]
    /\ UNCHANGED <<enc, avctx, driver, available, useAudioFrame, ctxDims, alive, views, out,
                   decoded, undecoded_size, packet, tframes>>

\* ---- AudioDecoderFFmpeg::decode ----
\* a driver that submits the packet data of an end-of-stream packet
AudioSubmitArg_AlwaysData(eof) == "data"

AudioSubmitArg(eof) == IF eof THEN "flush" ELSE "data"

\* a driver that takes an accepted submission (0) for a failure
AudioSubmitRejected_OnZero(ret) == ret <= 0

AudioSubmitRejected(ret) == ret < 0

AudioResult(conv, outNonEmpty) ==
    IF useAudioFrame THEN TRUE
    ELSE IF ~conv THEN FALSE
    ELSE outNonEmpty

AudioDecoded(conv, outNonEmpty) ==
    IF useAudioFrame THEN FALSE
    ELSE IF ~conv THEN FALSE
    ELSE outNonEmpty

AudioDecode(eof, size, sendRet, new, rdy, recvRet, conv, outNonEmpty) ==
    /\ driver = AudioDecoderFFmpeg
    /\ alive
    /\ IF ~available
       THEN /\ call' = [NoCall EXCEPT !.op = "decode", !.eos = eof]
            /\ UNCHANGED <<codec, frame, refs, decoded, undecoded_size>>
       ELSE
        LET arg == AudioSubmitArg(eof)
            snd == Ext("avcodec_send_packet", arg, sendRet)
        IN
        /\ sendRet \in SendOutcomes(codec)
        /\ IF AudioSubmitRejected(sendRet)
           THEN /\ call' = [NoCall EXCEPT !.op = "decode", !.eos = eof,
                               !.trace = <<snd>>,
                               !.log = IF eof THEN "send_eof" ELSE "send"]
                /\ decoded' = FALSE
                /\ UNCHANGED <<codec, frame, refs, undecoded_size>>
           ELSE
            LET c1 == IF sendRet = 0 THEN AfterSend(codec, arg, new, rdy) ELSE codec
                c2 == AfterRecv(c1, recvRet)
                rcv == Ext("avcodec_receive_frame", "-", recvRet)
                r1 == Unref(refs, frame)
            IN
            /\ new \in NewRange(codec, arg)
            /\ rdy \in RdyRange(codec, arg, new)
            /\ recvRet \in RecvOutcomes(c1)
            /\ codec' = c2
            /\ IF recvRet = AVERROR_EAGAIN \/ recvRet = AVERROR_EOF
               THEN /\ frame' = EmptyFrame
                    /\ refs' = r1
                    /\ call' = [NoCall EXCEPT !.op = "decode", !.eos = eof,
                                   !.trace = <<snd, rcv>>]
                    /\ decoded' = FALSE
                    /\ UNCHANGED undecoded_size
               ELSE IF recvRet < 0
               THEN /\ frame' = EmptyFrame
                    /\ refs' = r1
                    /\ call' = [NoCall EXCEPT !.op = "decode", !.eos = eof,
                                   !.trace = <<snd, rcv>>, !.log = "receive"]
                    /\ decoded' = FALSE
                    /\ UNCHANGED undecoded_size
               ELSE /\ frame' = [EmptyFrame EXCEPT !.buf = Taken(c2),
                                                    !.format = AV_SAMPLE_FMT_S16]
                    /\ refs' = [r1 EXCEPT ![Taken(c2)] = 1]
                    /\ undecoded_size' = Min(size - recvRet, size)
                    /\ decoded' = AudioDecoded(conv, outNonEmpty)
                    /\ call' = [NoCall EXCEPT !.op = "decode", !.eos = eof,
                                   !.trace = <<snd, rcv>>, !.got = Taken(c2),
                                   !.ret = AudioResult(conv, outNonEmpty)]
    /\ UNCHANGED <<enc, avctx, driver, available, useAudioFrame, ctxDims, alive, views, out,
                   dsize, packet, tframes>>

\* ---- frame() ----
\* the value AudioDecoderFFmpeg::frame() builds from scratch frame f
AudioFrameOf(f) ==
    IF f.format = AV_SAMPLE_FMT_NONE THEN NoFrame
    ELSE [NoFrame EXCEPT !.valid = TRUE, !.buf = f.buf]

\* ---- colour details and display aspect ratio of a video frame ----
ColorSpace_Unknown == "ColorSpace_Unknown"
ColorSpace_RGB == "ColorSpace_RGB"
ColorSpace_GBR == "ColorSpace_GBR"
ColorSpace_BT601 == "ColorSpace_BT601"
ColorSpace_BT709 == "ColorSpace_BT709"
ColorRange_Unknown == "ColorRange_Unknown"
ColorRange_Limited == "ColorRange_Limited"
ColorRange_Full == "ColorRange_Full"

colorSpaceFromFFmpeg(cs) ==
    IF cs = "AVCOL_SPC_RGB" THEN ColorSpace_GBR
    ELSE IF cs = "AVCOL_SPC_BT709" THEN ColorSpace_BT709
    ELSE IF cs \in {"AVCOL_SPC_BT470BG", "AVCOL_SPC_SMPTE170M"} THEN ColorSpace_BT601
    ELSE ColorSpace_Unknown

colorRangeFromFFmpeg(cr) ==
    IF cr = "AVCOL_RANGE_MPEG" THEN ColorRange_Limited
    ELSE IF cr = "AVCOL_RANGE_JPEG" THEN ColorRange_Full
    ELSE ColorRange_Unknown

\* the pixel formats of the model and what VideoFormat and the pixel format
\* descriptor say about them
YUVJFormats == {"AV_PIX_FMT_YUVJ420P", "AV_PIX_FMT_YUVJ422P",
                "AV_PIX_FMT_YUVJ440P", "AV_PIX_FMT_YUVJ444P"}

PixFmts == {"AV_PIX_FMT_YUV420P", "AV_PIX_FMT_RGB24", "AV_PIX_FMT_GBRP",
            "AV_PIX_FMT_XYZ12LE"} \cup YUVJFormats

isRGB(fmt) == fmt \in {"AV_PIX_FMT_RGB24", "AV_PIX_FMT_GBRP"}

isXYZ(fmt) == fmt = "AV_PIX_FMT_XYZ12LE"

isPlanar(fmt) == fmt \in {"AV_PIX_FMT_YUV420P", "AV_PIX_FMT_GBRP"} \cup YUVJFormats

PixFmtFlagRGB(fmt) == fmt \in {"AV_PIX_FMT_RGB24", "AV_PIX_FMT_GBRP"}

\* colour space SetColorDetailsByFFmpeg sets: the frame's, else the context's
ColorSpaceOf(f, ctx) ==
    LET cs == colorSpaceFromFFmpeg(f.colorspace)
    IN IF cs = ColorSpace_Unknown THEN colorSpaceFromFFmpeg(ctx.colorspace) ELSE cs

\* a SetColorDetailsByFFmpeg that asks the context before the pixel format
ColorRangeOf_ContextFirst(fmt, f, ctx) ==
    LET cr == colorRangeFromFFmpeg(f.color_range)
        cc == colorRangeFromFFmpeg(ctx.color_range)
    IN IF cr # ColorRange_Unknown THEN cr
       ELSE IF cc # ColorRange_Unknown THEN cc
       ELSE IF f.pix_fmt \in YUVJFormats THEN ColorRange_Full
       ELSE IF isXYZ(fmt) THEN ColorRange_Full
       ELSE IF ~isRGB(fmt) THEN ColorRange_Limited
       ELSE ColorRange_Unknown

\* colour range SetColorDetailsByFFmpeg sets on an output frame of format fmt
ColorRangeOf(fmt, f, ctx) ==
    LET cr0 == colorRangeFromFFmpeg(f.color_range)
        cr1 == IF cr0 = ColorRange_Unknown /\ f.pix_fmt \in YUVJFormats
               THEN ColorRange_Full ELSE cr0
        cc == colorRangeFromFFmpeg(ctx.color_range)
    IN IF cr1 # ColorRange_Unknown THEN cr1
       ELSE IF cc # ColorRange_Unknown THEN cc
       ELSE IF isXYZ(fmt) THEN ColorRange_Full
       ELSE IF ~isRGB(fmt) THEN ColorRange_Limited
       ELSE ColorRange_Unknown

\* <<colour space, colour range>> set on the output frame
SetColorDetailsByFFmpeg(fmt, f, ctx) ==
    <<ColorSpaceOf(f, ctx), ColorRangeOf(fmt, f, ctx)>>

\* an adapter that takes the frame's and the context's values for an RGB
\* output frame of a different format
RGBOutputDetails_FromFrame(fmt, f, ctx) == SetColorDetailsByFFmpeg(fmt, f, ctx)

\* colour details of an RGB output frame whose format differs from the
\* decoded frame's
RGBOutputDetails(fmt, f, ctx) ==
    <<IF isPlanar(fmt) THEN ColorSpace_GBR ELSE ColorSpace_RGB, ColorRange_Full>>

\* updateColorDetails for an output frame of format fmt and size w x h
updateColorDetails(fmt, w, h, f, ctx) ==
    IF fmt = f.pix_fmt THEN SetColorDetailsByFFmpeg(fmt, f, ctx)
    ELSE IF isRGB(fmt) THEN RGBOutputDetails(fmt, f, ctx)
    ELSE IF PixFmtFlagRGB(ctx.pix_fmt)
    THEN <<IF w >= 1280 /\ h >= 576 THEN ColorSpace_BT709 ELSE ColorSpace_BT601,
           ColorRange_Limited>>
    ELSE SetColorDetailsByFFmpeg(fmt, f, ctx)

\* ratios are pairs <<numerator, denominator>>
RatMul(a, b) == <<a[1] * b[1], a[2] * b[2]>>

RatEq(a, b) == a[1] * b[2] = b[1] * a[2]

\* which sample aspect ratio getDAR multiplies by: "frame", "context" or "none"
SarChoice(fsar, csar) ==
    IF fsar[1] > 1 THEN "frame"
    ELSE IF available /\ csar[1] > 1 THEN "context"
    ELSE "none"

getDAR(f, ctx) ==
    LET dar == IF f.height > 0 THEN <<f.width, f.height>> ELSE <<0, 1>>
        sar == SarChoice(f.sample_aspect_ratio, ctx.sample_aspect_ratio)
    IN IF sar = "frame" THEN RatMul(dar, f.sample_aspect_ratio)
       ELSE IF sar = "context" THEN RatMul(dar, ctx.sample_aspect_ratio)
       ELSE dar

\* the VideoFrame frame() builds once the dimensions are known to be positive
VideoFrameBuilt(f) ==
    LET fmt == avctx.pix_fmt
        cd == updateColorDetails(fmt, f.width, f.height, f, avctx)
    IN [valid |-> TRUE, buf |-> f.buf, width |-> f.width, height |-> f.height,
        format |-> fmt, displayAspectRatio |-> getDAR(f, avctx),
        colorSpace |-> cd[1], colorRange |-> cd[2], avbuf |-> TRUE]

\* a frame() that builds a frame whatever the dimensions are
VideoFrameOf_Unchecked(f) == VideoFrameBuilt(f)

\* the value VideoDecoderFFmpegBase::frame() builds from scratch frame f
VideoFrameOf(f) ==
    IF f.width <= 0 \/ f.height <= 0 \/ ~available THEN NoFrame
    ELSE VideoFrameBuilt(f)

RECURSIVE SumUpTo(_, _)
SumUpTo(v, n) == IF n = 0 THEN 0 ELSE v[n] + SumUpTo(v, n - 1)

\* number of internal frames the caller holds
TotalViews == SumUpTo(views, MaxFrames)

\* references a returned audio frame takes on the buffer it points into
AudioFrameRefs == 0

\* references a returned video frame takes (the "avbuf" AVFrameBuffers)
VideoFrameRefs == 1

AudioFrame ==
    /\ driver = AudioDecoderFFmpeg
    /\ alive
    /\ out' = AudioFrameOf(frame)
    /\ IF out'.valid
       THEN /\ TotalViews < MaxViews
            /\ views' = [views EXCEPT ![out'.buf] = @ + 1]
            /\ refs' = [refs EXCEPT ![out'.buf] = @ + AudioFrameRefs]
       ELSE UNCHANGED <<views, refs>>
    /\ UNCHANGED <<enc, avctx, driver, available, useAudioFrame, ctxDims, alive, codec, frame,
                   decoded, undecoded_size, dsize, packet, tframes, call>>

VideoFrame ==
    /\ driver = VideoDecoderFFmpegBase
    /\ alive
    /\ out' = VideoFrameOf(frame)
    /\ IF out'.valid
       THEN /\ TotalViews < MaxViews
            /\ views' = [views EXCEPT ![out'.buf] = @ + 1]
            /\ refs' = [refs EXCEPT ![out'.buf] = @ + VideoFrameRefs]
       ELSE UNCHANGED <<views, refs>>
    /\ UNCHANGED <<enc, avctx, driver, available, useAudioFrame, ctxDims, alive, codec, frame,
                   decoded, undecoded_size, dsize, packet, tframes, call>>

\* the caller drops one internal frame it holds; a video frame's AVFrameBuffers
\* gives its reference back
DropView(b) ==
    /\ driver # AudioEncoderFFmpeg
    /\ views[b] > 0
    /\ views' = [views EXCEPT ![b] = @ - 1]
    /\ refs' = IF driver = VideoDecoderFFmpegBase
               THEN [refs EXCEPT ![b] = @ - VideoFrameRefs]
               ELSE [refs EXCEPT ![b] = @ - AudioFrameRefs]
    /\ UNCHANGED <<enc, avctx, driver, available, useAudioFrame, ctxDims, alive, codec, frame,
                   out, decoded, undecoded_size, dsize, packet, tframes, call>>

\* ~AudioDecoderFFmpegPrivate: av_frame_free(&frame)
AudioDestroy ==
    /\ driver = AudioDecoderFFmpeg
    /\ alive
    /\ alive' = FALSE
    /\ refs' = Unref(refs, frame)
    /\ frame' = EmptyFrame
    /\ UNCHANGED <<enc, avctx, driver, available, useAudioFrame, ctxDims, codec, views, out,
                   decoded, undecoded_size, dsize, packet, tframes, call>>

\* ~VideoDecoderFFmpegBasePrivate: av_frame_free(&frame)
VideoDestroy ==
    /\ driver = VideoDecoderFFmpegBase
    /\ alive
    /\ alive' = FALSE
    /\ refs' = Unref(refs, frame)
    /\ frame' = EmptyFrame
    /\ UNCHANGED <<enc, avctx, driver, available, useAudioFrame, ctxDims, codec, views, out,
                   decoded, undecoded_size, dsize, packet, tframes, call>>

\* ---- AudioEncoderFFmpeg::encode ----
EncodeSubmitArg(valid) == IF valid THEN "data" ELSE "flush"

\* an encoder that retrieves after a rejected submission
EncodeSubmitRejected_Never(ret) == FALSE

EncodeSubmitRejected(ret) == ret < 0

\* an encoder that leaves the previous packet in place on "needs more input"
EncodeAgainPacket_Keep(p) == p

\* d.packet and the return value on retrieval "needs more input"
EncodeAgainPacket(p) == 0

\* an encoder that reports true on "needs more input" even at end of stream
EncodeAgainResult_True(valid) == TRUE

EncodeAgainResult(valid) == valid

\* d.packet and the return value on retrieval "fully drained"
\* an encoder that leaves the previous packet in place when drained
EncodeEOFPacket_Keep(p) == p

EncodeEOFPacket(p) == 0

EncodeEOFResult(valid) == FALSE

\* d.packet on a retrieval error: not assigned
EncodeErrorPacket(p) == p

\* whether the transient frame f is freed on each return path after retrieval
EncodeFreesOnSuccess == TRUE

EncodeFreesOnNoPacket == FALSE

\* avcodec_send_frame on a context that has not been opened is an error
EncodeSendOutcomes ==
    IF enc.is_open THEN SendOutcomes(codec) ELSE {AVERROR_EINVAL}

\* an encoder that stamps the time base of the context on every call
EncodeContext_SetTimeBase(ctx) == [ctx EXCEPT !.time_base = <<1, 1000>>]

\* the context after encode(): it hands d.avctx to the library and reads its
\* time base, and assigns no field of it
EncodeContext(ctx) == ctx

Encode(valid, allocOk, sendRet, new, rdy, recvRet) ==
    /\ driver = AudioEncoderFFmpeg
    /\ alive
    /\ valid => tframes < MaxLeak
    /\ IF valid /\ ~allocOk
       THEN /\ call' = [NoCall EXCEPT !.op = "encode", !.eos = ~valid, !.log = "alloc"]
            /\ UNCHANGED <<codec, packet, tframes>>
       ELSE
        LET arg == EncodeSubmitArg(valid)
            snd == Ext("avcodec_send_frame", arg, sendRet)
            base == [NoCall EXCEPT !.op = "encode", !.eos = ~valid, !.alloc = valid]
        IN
        /\ sendRet \in EncodeSendOutcomes
        /\ IF EncodeSubmitRejected(sendRet)
           THEN /\ call' = [base EXCEPT !.trace = <<snd>>, !.freed = valid,
                               !.log = IF valid THEN "send" ELSE "send_eof"]
                /\ UNCHANGED <<codec, packet, tframes>>
           ELSE
            LET c1 == IF sendRet = 0 THEN AfterSend(codec, arg, new, rdy) ELSE codec
                c2 == AfterRecv(c1, recvRet)
                rcv == Ext("avcodec_receive_packet", "-", recvRet)
                leak == IF valid /\ ~EncodeFreesOnNoPacket THEN 1 ELSE 0
                freedNow == valid /\ EncodeFreesOnNoPacket
            IN
            /\ new \in NewRange(codec, arg)
            /\ rdy \in RdyRange(codec, arg, new)
            /\ recvRet \in RecvOutcomes(c1)
            /\ codec' = c2
            /\ IF recvRet = AVERROR_EAGAIN
               THEN /\ packet' = EncodeAgainPacket(packet)
                    /\ tframes' = tframes + leak
                    /\ call' = [base EXCEPT !.trace = <<snd, rcv>>, !.log = "again",
                                   !.freed = freedNow,
                                   !.ret = EncodeAgainResult(valid)]
               ELSE IF recvRet = AVERROR_EOF
               THEN /\ packet' = EncodeEOFPacket(packet)
                    /\ tframes' = tframes + leak
                    /\ call' = [base EXCEPT !.trace = <<snd, rcv>>, !.log = "eof",
                                   !.freed = freedNow,
                                   !.ret = EncodeEOFResult(valid)]
               ELSE IF recvRet < 0
               THEN /\ packet' = EncodeErrorPacket(packet)
                    /\ tframes' = tframes + leak
                    /\ call' = [base EXCEPT !.trace = <<snd, rcv>>, !.log = "receive",
                                   !.freed = freedNow]
               ELSE /\ packet' = Taken(c2)
                    /\ tframes' = tframes + (IF valid /\ ~EncodeFreesOnSuccess THEN 1 ELSE 0)
                    /\ call' = [base EXCEPT !.trace = <<snd, rcv>>, !.got = Taken(c2),
                                   !.freed = (valid /\ EncodeFreesOnSuccess),
                                   !.ret = TRUE]
    /\ avctx' = EncodeContext(avctx)
    /\ UNCHANGED <<enc, driver, available, useAudioFrame, ctxDims, alive, frame, refs,
                   views, out, decoded, undecoded_size, dsize>>

\* ---- AudioEncoderFFmpegPrivate::open ----
DefaultSampleRate == 44100
PcmFrameSize == 16384
BufferSlack == 200
AV_INPUT_BUFFER_MIN_SIZE == 16384

\* the encoders avcodec_find_encoder_by_name can return: the lists they
\* advertise (<<>>: a null list), the frame size avcodec_open2 sets and
\* av_get_bits_per_sample of their codec id
Encoders ==
    {[supported_samplerates |-> <<>>, sample_fmts |-> <<>>,
      channel_layouts |-> <<>>, frame_size |-> 0, bits_per_sample |-> 16],
     [supported_samplerates |-> <<22050, 44100>>,
      sample_fmts |-> <<AV_SAMPLE_FMT_FLT, AV_SAMPLE_FMT_S16>>,
      channel_layouts |-> <<AV_CH_LAYOUT_MONO, AV_CH_LAYOUT_STEREO>>,
      frame_size |-> 1024, bits_per_sample |-> 0]}

OpenSampleRate(format, cdc) ==
    IF format.sampleRate <= 0
    THEN IF cdc.supported_samplerates # <<>>
         THEN cdc.supported_samplerates[1]
         ELSE DefaultSampleRate
    ELSE format.sampleRate

OpenSampleFormat(format, cdc) ==
    IF format.sampleFormat = SampleFormat_Unknown
    THEN IF cdc.sample_fmts # <<>>
         THEN sampleFormatFromFFmpeg(cdc.sample_fmts[1])
         ELSE SampleFormat_Signed16
    ELSE format.sampleFormat

OpenChannelLayout(format, cdc) ==
    IF format.channelLayout = ChannelLayout_Unsupported
    THEN IF cdc.channel_layouts # <<>>
         THEN channelLayoutFromFFmpeg(cdc.channel_layouts[1])
         ELSE ChannelLayout_Stereo
    ELSE format.channelLayout

\* format_used after the three selections
OpenFormatUsed(format, cdc) ==
    [sampleRate |-> OpenSampleRate(format, cdc),
     sampleFormat |-> OpenSampleFormat(format, cdc),
     channelLayout |-> OpenChannelLayout(format, cdc)]

\* the context fields open() assigns from format_used and bit_rate
OpenContext(fu, bit_rate) ==
    [Ctx0 EXCEPT !.sample_fmt = sampleFormatFFmpeg(fu.sampleFormat),
                 !.channel_layout = channelLayoutFFmpeg(fu.channelLayout),
                 !.channels = channels(fu.channelLayout),
                 !.sample_rate = fu.sampleRate,
                 !.bits_per_raw_sample = bytesPerSample(fu.sampleFormat) * 8,
                 !.time_base = <<1, fu.sampleRate>>,
                 !.bit_rate = bit_rate]

OpenPcmHack(fs, bits) == IF fs <= 1 THEN bits \div 8 ELSE 0

OpenFrameSize(fs, bits) == IF OpenPcmHack(fs, bits) # 0 THEN PcmFrameSize ELSE fs

OpenBufferSize(fs, bits, fu) ==
    LET pcm_hack == OpenPcmHack(fs, bits)
        buffer_size ==
            IF pcm_hack # 0
            THEN PcmFrameSize * pcm_hack * channels(fu.channelLayout) * 2 + BufferSlack
            ELSE fs * bytesPerSample(fu.sampleFormat) * channels(fu.channelLayout) * 2
                 + BufferSlack
    IN IF buffer_size < AV_INPUT_BUFFER_MIN_SIZE
       THEN AV_INPUT_BUFFER_MIN_SIZE
       ELSE buffer_size

\* found: the named encoder exists; cdc: the encoder; openOk: avcodec_open2
\* succeeds. open() can be called again on an encoder that is open: with a
\* codec name it frees the context and allocates a new one, which holds no
\* queued data, before it selects the format again
Open(found, cdc, openOk) ==
    /\ driver = AudioEncoderFFmpeg
    /\ alive
    /\ IF ~enc.codec_name
       THEN /\ enc' = [enc EXCEPT !.is_open = openOk]
            /\ avctx' = (IF openOk THEN [avctx EXCEPT !.frame_size = cdc.frame_size]
                         ELSE avctx)
            /\ call' = [NoCall EXCEPT !.op = "open", !.ret = openOk, !.codec = cdc,
                                      !.log = IF openOk THEN "" ELSE "open2"]
            /\ UNCHANGED codec
       ELSE IF ~found
       THEN /\ call' = [NoCall EXCEPT !.op = "open", !.log = "find"]
            /\ UNCHANGED <<enc, avctx, codec>>
       ELSE
        LET fu == OpenFormatUsed(enc.format, cdc)
            ctx == OpenContext(fu, enc.bit_rate)
        IN
        /\ codec' = Codec0
        /\ IF ~openOk
           THEN /\ enc' = [enc EXCEPT !.format_used = fu, !.is_open = FALSE]
                /\ avctx' = ctx
                /\ call' = [NoCall EXCEPT !.op = "open", !.log = "open2", !.codec = cdc]
           ELSE /\ enc' = [enc EXCEPT
                             !.format_used = fu,
                             !.frame_size = OpenFrameSize(cdc.frame_size, cdc.bits_per_sample),
                             !.buffer = OpenBufferSize(cdc.frame_size, cdc.bits_per_sample, fu),
                             !.is_open = TRUE]
                /\ avctx' = [ctx EXCEPT !.frame_size = cdc.frame_size]
                /\ call' = [NoCall EXCEPT !.op = "open", !.ret = TRUE, !.codec = cdc]
    /\ UNCHANGED <<driver, available, useAudioFrame, ctxDims, alive, frame,
                   refs, views, out, decoded, undecoded_size, dsize, packet, tframes>>

\* ---- AudioEncoderFFmpegPrivate::close ----
\* closeRet: the result of avcodec_close. The context is closed and the data
\* queued in it is dropped; a negative result is logged and close() returns
\* false. The fields open() assigned, the format used, the frame size, the
\* buffer and the exposed packet stay
Close(closeRet) ==
    /\ driver = AudioEncoderFFmpeg
    /\ alive
    /\ enc' = [enc EXCEPT !.is_open = FALSE]
    /\ codec' = Codec0
    /\ call' = [NoCall EXCEPT !.op = "close", !.ret = (closeRet >= 0),
                              !.log = IF closeRet < 0 THEN "close" ELSE ""]
    /\ UNCHANGED <<avctx, driver, available, useAudioFrame, ctxDims, alive, frame,
                   refs, views, out, decoded, undecoded_size, dsize, packet, tframes>>

CloseCall == \E closeRet \in {0, AVERROR_EINVAL} : Close(closeRet)

OpenCall ==
    \E found \in BOOLEAN, cdc \in Encoders, openOk \in BOOLEAN :
       Open(found, cdc, openOk)

\* widths and heights a decoded video frame can have
Dims == {1, MaxDim}

\* ---- one step of the caller ----
Codes == {0, AVERROR_EAGAIN, AVERROR_EOF, AVERROR_INVALIDDATA}

\* inputs of one submit/retrieve round: the results the external codec reports
\* and the number of results an accepted data unit produces and makes ready
Rounds(arg) ==
    {<<sendRet, new, rdy, recvRet>> \in Codes \X (0..MaxPerPacket) \X (0..MaxFrames) \X Codes :
        /\ sendRet \in SendOutcomes(codec)
        /\ new \in NewRange(codec, arg)
        /\ rdy \in RdyRange(codec, arg, new)
        /\ IF sendRet = 0
           THEN recvRet \in RecvOutcomes(AfterSend(codec, arg, new, rdy))
           ELSE /\ new = 0
                /\ rdy = (IF arg = "flush" THEN 0 ELSE codec.ready)
                /\ recvRet \in RecvOutcomes(codec)}

VideoDecodeCall ==
    \E eof \in BOOLEAN : \E r \in Rounds(VideoSubmitArg(eof)) :
       \E w \in Dims, h \in Dims :
          VideoDecode(eof, r[1], r[2], r[3], r[4], w, h)

AudioDecodeCall ==
    \E eof \in BOOLEAN : \E r \in Rounds(AudioSubmitArg(eof)) :
       \E conv \in BOOLEAN, outNonEmpty \in BOOLEAN :
          \E size \in 0..MaxSize :
             AudioDecode(eof, size, r[1], r[2], r[3], r[4], conv, outNonEmpty)

\* the rounds of an encoder: before open() every submission is an error
EncodeRounds(arg) ==
    IF enc.is_open THEN Rounds(arg)
    ELSE {<<AVERROR_EINVAL, 0, 0, AVERROR_EINVAL>>}

EncodeCall ==
    \E valid \in BOOLEAN : \E r \in EncodeRounds(EncodeSubmitArg(valid)) :
       \E allocOk \in BOOLEAN :
          Encode(valid, allocOk, r[1], r[2], r[3], r[4])

DropViewCall == \E b \in Bufs : DropView(b)

Next ==
    \/ VideoDecodeCall
    \/ AudioDecodeCall
    \/ OpenCall
    \/ CloseCall
    \/ EncodeCall
    \/ AudioFrame
    \/ VideoFrame
    \/ DropViewCall
    \/ AudioDestroy
    \/ VideoDestroy

Spec == Init /\ [][Next]_vars

\* a caller that keeps calling decode() or encode() for as long as the driver
\* lives
SpecLive ==
    /\ Spec
    /\ WF_vars(VideoDecodeCall)
    /\ WF_vars(AudioDecodeCall)
    /\ WF_vars(EncodeCall)

\* ---- frame() on every kind of decoded video frame ----
\* the colour spaces, colour ranges and sample aspect ratios a decoded frame
\* and a codec context can carry
FrameColorSpaces == {"AVCOL_SPC_UNSPECIFIED", "AVCOL_SPC_BT709", "AVCOL_SPC_SMPTE170M"}

FrameColorRanges == {"AVCOL_RANGE_UNSPECIFIED", "AVCOL_RANGE_MPEG", "AVCOL_RANGE_JPEG"}

SampleAspectRatios == {<<0, 1>>, <<1, 1>>, <<2, 1>>, <<1, 2>>, <<4, 3>>}

\* decoded frames (in buffer 1) and contexts that differ in their colour
\* metadata and pixel formats
ColourCases ==
    {<<[EmptyFrame EXCEPT !.buf = 1, !.width = 1, !.height = 1, !.pix_fmt = pf,
                          !.colorspace = fs, !.color_range = fr],
       [Ctx0 EXCEPT !.pix_fmt = cf, !.colorspace = cs, !.color_range = cr]>> :
        pf \in PixFmts, fs \in FrameColorSpaces, fr \in FrameColorRanges,
        cf \in PixFmts, cs \in FrameColorSpaces, cr \in FrameColorRanges}

\* decoded frames and contexts that differ in size and sample aspect ratio
GeometryCases ==
    {<<[EmptyFrame EXCEPT !.buf = 1, !.width = w, !.height = h,
                          !.pix_fmt = AV_PIX_FMT_YUV420P,
                          !.sample_aspect_ratio = fsar],
       [Ctx0 EXCEPT !.pix_fmt = AV_PIX_FMT_YUV420P,
                    !.sample_aspect_ratio = csar]>> :
        w \in Dims, h \in Dims,
        fsar \in SampleAspectRatios, csar \in SampleAspectRatios}

\* the state after the first packet has been decoded into one frame
InitFrame ==
    /\ driver = VideoDecoderFFmpegBase
    /\ available = TRUE
    /\ useAudioFrame = TRUE
    /\ ctxDims = <<MaxDim, MaxDim>>
    /\ alive = TRUE
    /\ codec = [Codec0 EXCEPT !.made = 1]
    /\ \E fc \in ColourCases \cup GeometryCases :
          /\ frame = fc[1]
          /\ avctx = fc[2]
          /\ dsize = <<fc[1].width, fc[1].height>>
    /\ refs = [b \in Bufs |-> IF b = 1 THEN 1 ELSE 0]
    /\ views = [b \in Bufs |-> 0]
    /\ out = NoFrame
    /\ decoded = FALSE
    /\ undecoded_size = 0
    /\ packet = 0
    /\ tframes = 0
    /\ enc = Enc0
    /\ call = [NoCall EXCEPT !.op = "decode",
                  !.trace = <<Ext("avcodec_send_packet", "data", 0),
                              Ext("avcodec_receive_frame", "-", 0)>>,
                  !.got = 1, !.ret = TRUE]

NextFrame ==
    \/ VideoFrame
    \/ DropViewCall

SpecFrame == InitFrame /\ [][NextFrame]_vars

\* ---- observations of the last call ----
Submitted == Len(call.trace) >= 1

Accepted == Len(call.trace) >= 1 /\ call.trace[1].ret >= 0

Retrieved == Len(call.trace) = 2

RetrievalRet == call.trace[2].ret

\* the value frame() would return now
FrameNow == IF driver = AudioDecoderFFmpeg THEN AudioFrameOf(frame) ELSE VideoFrameOf(frame)

\* how the last call ended: rejected submission or retrieval error ("hard"),
\* retrieval needs more input ("again"), fully drained ("drained"), "success"
Outcome(c) ==
    IF Len(c.trace) = 0 THEN "none"
    ELSE IF c.trace[1].ret < 0 THEN "hard"
    ELSE IF Len(c.trace) < 2 THEN "none"
    ELSE IF c.trace[2].ret = AVERROR_EAGAIN THEN "again"
    ELSE IF c.trace[2].ret = AVERROR_EOF THEN "drained"
    ELSE IF c.trace[2].ret < 0 THEN "hard"
    ELSE "success"

\* what the caller can observe after a call: the return value and the
\* frame, decoded bytes and packet the driver exposes
Visible == <<call.ret, FrameNow.valid, decoded, packet>>

\* C1: a decode call on an available decoder submits exactly once (the packet,
\* or the flush signal for an end-of-stream packet), retrieves at most once and
\* only after an accepted submission; a rejected submission returns failure
\* with no retrieval
C1_OneSubmitOneRetrieve ==
    (call.op = "decode" /\ available) =>
        /\ Len(call.trace) \in {1, 2}
        /\ call.trace[1].fn = "avcodec_send_packet"
        /\ call.trace[1].arg = (IF call.eos THEN "flush" ELSE "data")
        /\ Len(call.trace) = 2 =>
              /\ call.trace[2].fn = "avcodec_receive_frame"
              /\ call.trace[1].ret >= 0
        /\ call.trace[1].ret < 0 => (Len(call.trace) = 1 /\ call.ret = FALSE)

C1_Witness ==
    /\ call.op = "decode" /\ available
    /\ driver = VideoDecoderFFmpegBase
    /\ Len(call.trace) = 1
    /\ call.trace[1].ret = AVERROR_EAGAIN

\* C2: whenever decode returns true, the retrieval of that call succeeded and
\* frame() gives the frame retrieved in that call, not an empty or an older one
C2_TrueMeansNewFrame ==
    (call.op = "decode" /\ call.ret /\ alive) =>
        /\ Retrieved /\ RetrievalRet = 0
        /\ FrameNow.valid
        /\ call.got # 0 /\ FrameNow.buf = call.got

\* C3: two calls of the same driver with the same kind of input that end in
\* two different non-success outcomes (needs more input, fully drained, hard
\* failure) leave different caller-visible results
C3_OutcomesDistinguished ==
    [][(/\ call.op \in {"decode", "encode"}
        /\ call'.op = call.op
        /\ call'.eos = call.eos
        /\ Outcome(call) \in {"again", "drained", "hard"}
        /\ Outcome(call') \in {"again", "drained", "hard"}
        /\ Outcome(call') # Outcome(call))
       => Visible' # Visible]_vars

\* C4: a decode call with an end-of-stream packet whose flush signal was
\* accepted goes on to the retrieval; it reports a hard failure only when the
\* retrieval itself fails, and on "needs more input" or "fully drained" it
\* reports no frame without an error
C4_FlushAcceptedNoHardFailure ==
    (call.op = "decode" /\ call.eos /\ Submitted /\ call.trace[1].ret = 0) =>
        /\ call.trace[1].arg = "flush"
        /\ Retrieved
        /\ call.log # "" => RetrievalRet \notin {0, AVERROR_EAGAIN, AVERROR_EOF}
        /\ RetrievalRet \in {AVERROR_EAGAIN, AVERROR_EOF} =>
              (call.ret = FALSE /\ call.log = "" /\ ~FrameNow.valid)

C4_Witness ==
    /\ call.op = "decode" /\ call.eos
    /\ driver = VideoDecoderFFmpegBase
    /\ Retrieved /\ call.trace[1].ret = 0
    /\ RetrievalRet = AVERROR_EOF

\* C5: an end-of-stream decode call submits the flush signal and, once it is
\* accepted, the stream is draining; "fully drained" is retrieved only while
\* draining, and only by an end-of-stream call
C5_DrainingStateMachine ==
    (call.op = "decode" /\ Submitted) =>
        /\ call.eos => call.trace[1].arg = "flush"
        /\ (call.eos /\ call.trace[1].ret = 0) => codec.draining
        /\ (~call.eos /\ call.trace[1].ret = 0) => call.trace[1].arg = "data"
        /\ (Retrieved /\ RetrievalRet = AVERROR_EOF) => (codec.draining /\ call.eos)

C5_Witness ==
    /\ call.op = "decode" /\ call.eos
    /\ driver = AudioDecoderFFmpeg
    /\ Retrieved /\ RetrievalRet = AVERROR_EOF
    /\ codec.draining

EncodeProtocol ==
    /\ Len(call.trace) \in {1, 2}
    /\ call.trace[1].fn = "avcodec_send_frame"
    /\ call.trace[1].arg = (IF call.eos THEN "flush" ELSE "data")
    /\ call.trace[1].ret >= 0 =>
          (Len(call.trace) = 2 /\ call.trace[2].fn = "avcodec_receive_packet")
    /\ call.trace[1].ret < 0 => (Len(call.trace) = 1 /\ call.ret = FALSE)

\* C6 as stated: every encode call submits exactly once (a frame view for a
\* valid frame, the null signal otherwise), retrieves exactly once after an
\* accepted submission and never after a rejected one
C6_EveryEncodeSubmitsOnce == call.op = "encode" => EncodeProtocol

\* C6 amended: the same, except when the allocation of the transient frame of
\* a valid frame fails: then the call fails with no submission and no retrieval
C6_EncodeSubmitsOnceUnlessAllocFails ==
    call.op = "encode" =>
        IF call.log = "alloc"
        THEN ~call.eos /\ call.trace = <<>> /\ call.ret = FALSE
        ELSE EncodeProtocol

C6_Witness ==
    /\ call.op = "encode" /\ call.eos
    /\ Retrieved
    /\ call.trace[1].arg = "flush"

\* C7: when the retrieval of an encode call reports "needs more input", the
\* packet is empty and the call returns true exactly when the frame was valid
C7_EncodeAgain ==
    (call.op = "encode" /\ Retrieved /\ RetrievalRet = AVERROR_EAGAIN) =>
        /\ packet = 0
        /\ call.ret = ~call.eos

C7_Witness ==
    /\ call.op = "encode" /\ ~call.eos
    /\ Retrieved /\ RetrievalRet = AVERROR_EAGAIN
    /\ call.ret = TRUE /\ packet = 0

EncodeDrained == call.op = "encode" /\ Retrieved /\ RetrievalRet = AVERROR_EOF

\* the encoder is open and fully drained, and exposes no packet
EncodeTerminal ==
    enc.is_open /\ codec.draining /\ codec.ready = 0 /\ packet = 0

\* C8: an encode call whose retrieval reports "fully drained" returns failure
\* with an empty packet and leaves the encoder drained; every later encode
\* call on the same open encoder (until a close() or another open()) returns
\* failure, exposes no packet and leaves the encoder drained
C8_EncodeDrainedTerminal ==
    [][/\ EncodeDrained' => (call'.ret = FALSE /\ packet' = 0 /\ EncodeTerminal')
       /\ (EncodeTerminal /\ call'.op = "encode")
             => (call'.ret = FALSE /\ packet' = 0 /\ EncodeTerminal')]_vars

C8_Witness ==
    /\ call.op = "encode" /\ ~call.eos
    /\ codec.draining /\ codec.ready = 0
    /\ Len(call.trace) = 1 /\ call.trace[1].ret = AVERROR_EOF
    /\ call.ret = FALSE /\ packet = 0

\* C9: encode returns true with a non-empty packet only when the retrieval of
\* that call succeeded; the packet is the one retrieved in that call and the
\* transient frame of the call has been released
C9_EncodeSuccess ==
    (call.op = "encode" /\ call.ret /\ packet # 0) =>
        /\ Retrieved /\ RetrievalRet = 0
        /\ packet = call.got
        /\ call.alloc => call.freed

C9_Witness ==
    /\ call.op = "encode" /\ call.ret /\ packet # 0
    /\ call.alloc /\ call.freed
    /\ packet = call.got

\* C10: every internal frame a caller still holds points into a buffer that is
\* still alive, for audio and for video frames
C10_ViewsKeepBuffersAlive ==
    \A b \in Bufs : views[b] > 0 => refs[b] > 0

\* C11: the fields of the codec context are written only by open(): every
\* step that changes a field of the context or its dimensions is an open()
\* call, so no decode(), frame() or encode() call changes them on any path
C11_ContextWrittenOnlyByOpen ==
    [][(avctx' # avctx \/ ctxDims' # ctxDims)
          => call'.op = "open"]_vars

C11_Witness ==
    /\ call.op = "encode" /\ enc.is_open
    /\ Retrieved /\ RetrievalRet = 0
    /\ avctx.sample_rate = 22050
    /\ avctx.time_base = <<1, 22050>>
    /\ avctx.frame_size = 1024

\* C14: the frame returned by the video frame() is either the empty frame,
\* which carries no metadata, or has positive width and height; while the
\* scratch frame has a non-positive width or height, or there is no codec
\* context, frame() gives the empty frame
C14_FrameEmptyOrPositive ==
    driver = VideoDecoderFFmpegBase =>
        /\ out.valid => (out.width > 0 /\ out.height > 0)
        /\ ~out.valid => out = NoFrame
        /\ (frame.width <= 0 \/ frame.height <= 0 \/ ~available) => FrameNow = NoFrame

C14_Witness ==
    /\ driver = VideoDecoderFFmpegBase /\ available
    /\ call.op = "decode" /\ Retrieved /\ RetrievalRet = AVERROR_EAGAIN
    /\ frame.width = 0
    /\ TotalViews > 0
    /\ out = NoFrame

\* the last call was an open() that returned true
OpenSucceeded == call.op = "open" /\ call.ret

\* C12: after a successful open(), each of the sample rate, the sample format
\* and the channel layout of the format used is the caller's value when the
\* caller specified it, else the first value the encoder advertises, else the
\* default (44100 Hz, signed 16-bit, stereo)
C12_FormatUsedSelected ==
    OpenSucceeded =>
        LET f == enc.format
            u == enc.format_used
            c == call.codec
        IN
        /\ u.sampleRate =
              (IF f.sampleRate > 0 THEN f.sampleRate
               ELSE IF c.supported_samplerates # <<>> THEN c.supported_samplerates[1]
               ELSE 44100)
        /\ sampleFormatFFmpeg(u.sampleFormat) =
              (IF f.sampleFormat # SampleFormat_Unknown
               THEN sampleFormatFFmpeg(f.sampleFormat)
               ELSE IF c.sample_fmts # <<>> THEN c.sample_fmts[1]
               ELSE AV_SAMPLE_FMT_S16)
        /\ channelLayoutFFmpeg(u.channelLayout) =
              (IF f.channelLayout # ChannelLayout_Unsupported
               THEN channelLayoutFFmpeg(f.channelLayout)
               ELSE IF c.channel_layouts # <<>> THEN c.channel_layouts[1]
               ELSE AV_CH_LAYOUT_STEREO)

\* C13: after every successful open(), also with no codec name set, the
\* working buffer is at least AV_INPUT_BUFFER_MIN_SIZE bytes; it is the larger
\* of that floor and frame size x bytes per sample x channels x 2 + 200, the
\* frame size being 16384 and the bytes per sample those of the codec id when
\* the encoder reports a frame size of at most 1
C13_BufferAtLeastFloor ==
    OpenSucceeded =>
        LET c == call.codec
            u == enc.format_used
            pcm == c.frame_size <= 1
            fs == IF pcm THEN 16384 ELSE c.frame_size
            bps == IF pcm THEN c.bits_per_sample \div 8
                   ELSE bytesPerSample(u.sampleFormat)
            size == fs * bps * channels(u.channelLayout) * 2 + 200
        IN
        /\ enc.buffer >= AV_INPUT_BUFFER_MIN_SIZE
        /\ enc.buffer = (IF size < AV_INPUT_BUFFER_MIN_SIZE
                         THEN AV_INPUT_BUFFER_MIN_SIZE ELSE size)

\* the last frame() call built its frame from the scratch frame, whose
\* pixel format is the output format (the software path)
BuiltSameFormat == out.valid /\ out.buf = frame.buf /\ out.format = frame.pix_fmt

\* the last frame() call built a frame whose format differs from the scratch
\* frame's (the path of hardware decoders)
BuiltOtherFormat == out.valid /\ out.buf = frame.buf /\ out.format # frame.pix_fmt

FrameRange == colorRangeFromFFmpeg(frame.color_range)

ContextRange == colorRangeFromFFmpeg(avctx.color_range)

FrameSpace == colorSpaceFromFFmpeg(frame.colorspace)

ContextSpace == colorSpaceFromFFmpeg(avctx.colorspace)

\* C15: when neither the frame nor the context gives a colour range, a frame
\* in one of the four YUVJ formats gets full range, any other YUV frame
\* limited range and every RGB and XYZ frame full range; none is left unknown
C15_DefaultRange ==
    (BuiltSameFormat /\ FrameRange = ColorRange_Unknown
                     /\ ContextRange = ColorRange_Unknown) =>
        out.colorRange =
           (IF out.format \in YUVJFormats THEN ColorRange_Full
            ELSE IF isRGB(out.format) \/ isXYZ(out.format) THEN ColorRange_Full
            ELSE ColorRange_Limited)

\* C16 as stated: the colour space and the colour range are the frame's value
\* if known, else the context's value if known, and only then inferred from
\* the pixel format: a known range of the context wins over the inference
C16_ContextBeforePixelFormat ==
    BuiltSameFormat =>
        /\ out.colorSpace = (IF FrameSpace # ColorSpace_Unknown THEN FrameSpace
                             ELSE ContextSpace)
        /\ (FrameRange # ColorRange_Unknown \/ ContextRange # ColorRange_Unknown) =>
              out.colorRange = (IF FrameRange # ColorRange_Unknown THEN FrameRange
                                ELSE ContextRange)

\* C16 amended: the colour space is the frame's value if known, else the
\* context's; the colour range is the frame's value if known, else full range
\* if the frame is in a YUVJ format, else the context's value if known: the
\* inference from the pixel format wins over a known range of the context
C16_PixelFormatBeforeContext ==
    BuiltSameFormat =>
        /\ out.colorSpace = (IF FrameSpace # ColorSpace_Unknown THEN FrameSpace
                             ELSE ContextSpace)
        /\ (\/ FrameRange # ColorRange_Unknown
            \/ ContextRange # ColorRange_Unknown
            \/ frame.pix_fmt \in YUVJFormats) =>
              out.colorRange = (IF FrameRange # ColorRange_Unknown THEN FrameRange
                                ELSE IF frame.pix_fmt \in YUVJFormats THEN ColorRange_Full
                                ELSE ContextRange)

C16_Witness ==
    /\ BuiltSameFormat
    /\ frame.pix_fmt = "AV_PIX_FMT_YUVJ420P"
    /\ FrameRange = ColorRange_Unknown
    /\ ContextRange = ColorRange_Limited
    /\ out.colorRange = ColorRange_Full

\* C17 as stated: an RGB output frame whose format differs from the decoded
\* frame's gets the RGB colour space and full range, whatever the colour
\* values of the frame and of the context are
C17_RGBOutputIsRGBFull ==
    (BuiltOtherFormat /\ isRGB(out.format)) =>
        /\ out.colorSpace = ColorSpace_RGB
        /\ out.colorRange = ColorRange_Full

\* C17 amended: such a frame gets full range and the RGB colour space, or the
\* GBR colour space when its format is planar, whatever the colour values of
\* the frame and of the context are
C17_RGBOutputIsRGBOrGBRFull ==
    (BuiltOtherFormat /\ isRGB(out.format)) =>
        /\ out.colorSpace = (IF isPlanar(out.format) THEN ColorSpace_GBR
                             ELSE ColorSpace_RGB)
        /\ out.colorRange = ColorRange_Full

C17_Witness ==
    /\ BuiltOtherFormat
    /\ out.format = "AV_PIX_FMT_RGB24"
    /\ frame.pix_fmt = "AV_PIX_FMT_YUV420P"
    /\ FrameSpace = ColorSpace_BT709
    /\ FrameRange = ColorRange_Limited
    /\ out.colorSpace = ColorSpace_RGB
    /\ out.colorRange = ColorRange_Full

\* C18: the display aspect ratio of a frame of positive height is
\* width/height times the sample aspect ratio of the frame whenever that
\* ratio is known and not square (2/1, 1/2, ...), whatever the ratio of the
\* context is, and width/height otherwise
C18_DarUsesNonSquareFrameSar ==
    (out.valid /\ out.buf = frame.buf) =>
        LET fsar == frame.sample_aspect_ratio
            wh == <<frame.width, frame.height>>
        IN IF fsar[1] > 0 /\ fsar[1] # fsar[2]
           THEN RatEq(out.displayAspectRatio, RatMul(wh, fsar))
           ELSE RatEq(out.displayAspectRatio, wh)

\* results are still buffered in a codec that has accepted the end-of-stream
\* signal
DrainPending == alive /\ codec.draining /\ codec.ready > 0

\* C19: once the end-of-stream signal has been accepted, a caller that keeps
\* calling decode() (or encode()) eventually retrieves every result still
\* buffered in the codec: none is lost to a rejected repeated flush
C19_DrainRetrievesAll == DrainPending ~> (codec.ready = 0 \/ ~alive)

\* the last decode() call had its submission rejected because a result is
\* pending retrieval
PendingRejected ==
    /\ alive
    /\ call.op = "decode"
    /\ Len(call.trace) = 1
    /\ call.trace[1].ret = AVERROR_EAGAIN

\* C20: after a submission rejected because a result is pending, a caller
\* that keeps calling decode() eventually has a result retrieved
C20_PendingEventuallyRetrieved ==
    PendingRejected ~>
        ((call.op = "decode" /\ Retrieved /\ RetrievalRet = 0) \/ ~alive)

\* C21: every transient frame an encode call allocates is released before the
\* call returns, on every return path: after any sequence of encode calls no
\* transient frame is allocated and not released
C21_NoTransientFrameOutstanding ==
    /\ tframes = 0
    /\ (call.op = "encode" /\ call.alloc) => call.freed

\* C22: after an encode call that submitted, the packet the encoder exposes is
\* the packet retrieved by that call, or empty when the call ended without a
\* successful retrieval (rejected submission, "needs more input", "fully
\* drained", retrieval error): never a packet of an earlier call
C22_PacketOfLastCallOrEmpty ==
    (call.op = "encode" /\ Submitted) =>
        IF Retrieved /\ RetrievalRet = 0
        THEN packet = call.got
        ELSE packet = 0
====
